---- MODULE Spec2Model ----
(***************************************************************************)
(* Model of the biometric matching core of fp-app:                         *)
(*   backend/utils/hash_utils.py   image_hash                              *)
(*   backend/routers/users.py      extract_features, safe_decode_features, *)
(*                                 match_features, search_user             *)
(*   backend/routers/register.py   extract_features, register_user         *)
(*                                                                         *)
(* Text is modelled as a sequence of code points, bytes as a sequence of   *)
(* integers 0..255, a numpy array as a record [dtype, shape, data].        *)
(***************************************************************************)
EXTENDS Integers, Sequences, FiniteSets, TLC

(***************************************************************************)
(* Bounds of the model.                                                    *)
(***************************************************************************)
\* longest candidate list find_best_match returns
MaxCands == 3

\* rows of a descriptor set given to the codec on its own
MaxRows == 3

\* rows of the large probe descriptor set, beyond the acceptance threshold
ExtraRows == 2

(***************************************************************************)
(* Program constants.                                                      *)
(***************************************************************************)
\* match_features(..., min_matches=20)
min_matches == 20
\* good_matches = [m for m in matches if m.distance < 50]
GoodDistance == 50
\* ORB descriptors are 32 bytes wide (cv2.ORB_create)
DescWidth == 32

(***************************************************************************)
(* Generic helpers.                                                        *)
(***************************************************************************)
Min2(a, b) == IF a <= b THEN a ELSE b

Range(s) == {s[i] : i \in DOMAIN s}

\* the value of Body for an expression computed once: a local name of the code
\* holds a value, it is not computed again where it is read
Bind(value, Body(_)) == CHOOSE r \in {Body(x) : x \in {value}} : TRUE

\* the sequence with the elements of f, every element evaluated
Tuple(f) == SubSeq(f, 1, Len(f))

RECURSIVE SumSeq(_)
\* sum(s), by halves
SumSeq(s) ==
  IF s = <<>> THEN 0
  ELSE IF Len(s) = 1 THEN s[1]
  ELSE LET h == Len(s) \div 2 IN SumSeq(SubSeq(s, 1, h)) + SumSeq(SubSeq(s, h + 1, Len(s)))

RECURSIVE Flatten(_)
\* concatenation of a sequence of sequences, by halves
Flatten(ss) ==
  IF ss = <<>> THEN <<>>
  ELSE IF Len(ss) = 1 THEN ss[1]
  ELSE LET h == Len(ss) \div 2 IN
    Flatten(SubSeq(ss, 1, h)) \o Flatten(SubSeq(ss, h + 1, Len(ss)))

RECURSIVE JoinWith(_, _)
\* sep.join(parts), by halves
JoinWith(parts, sep) ==
  IF parts = <<>> THEN <<>>
  ELSE IF Len(parts) = 1 THEN parts[1]
  ELSE LET h == Len(parts) \div 2 IN
    JoinWith(SubSeq(parts, 1, h), sep) \o sep \o JoinWith(SubSeq(parts, h + 1, Len(parts)), sep)

(***************************************************************************)
(* Text literals (code points).                                            *)
(***************************************************************************)
\* "uint8"
TxtUint8 == <<117, 105, 110, 116, 56>>
\* "int32"
TxtInt32 == <<105, 110, 116, 51, 50>>
\* "float32"
TxtFloat32 == <<102, 108, 111, 97, 116, 51, 50>>
\* "shape", "dtype", "data"
TxtShape == <<115, 104, 97, 112, 101>>
TxtDtype == <<100, 116, 121, 112, 101>>
TxtData == <<100, 97, 116, 97>>
\* '0123456789abcdefABCDEF'
HexAlphabet == (48..57) \cup (97..102) \cup (65..70)
\* 'A'..'Z', 'a'..'z', '0'..'9', '+', '/'
B64Alphabet ==
  Tuple([i \in 1..64 |-> IF i <= 26 THEN 64 + i
                         ELSE IF i <= 52 THEN 70 + i
                         ELSE IF i <= 62 THEN i - 5
                         ELSE IF i = 63 THEN 43 ELSE 47])

\* numpy dtype names the model knows; str(dtype) and np.dtype(name)
DtypeText(d) ==
  CASE d = "uint8" -> TxtUint8
    [] d = "int32" -> TxtInt32
    [] d = "float32" -> TxtFloat32

\* np.dtype(text): the dtype named by a string, "bad" when numpy rejects it
DtypeOf(txt) ==
  IF txt = TxtUint8 THEN "uint8"
  ELSE IF txt = TxtInt32 THEN "int32"
  ELSE IF txt = TxtFloat32 THEN "float32"
  ELSE "bad"

(***************************************************************************)
(* json.dumps of the descriptor dictionary (users.py 109-117).             *)
(***************************************************************************)
RECURSIVE Digits(_)
Digits(n) == IF n < 10 THEN <<48 + n>> ELSE Digits(n \div 10) \o <<48 + (n % 10)>>

\* a dump that writes the last decimal digit only
DumpsIntLastDigit(n) == <<48 + (n % 10)>>

\* json.dumps(int)
DumpsInt(n) == IF n < 0 THEN <<45>> \o Digits(-n) ELSE Digits(n)

\* json.dumps(list of int): "[a, b, c]"
DumpsIntList(row) ==
  <<91>> \o JoinWith([i \in DOMAIN row |-> DumpsInt(row[i])], <<44, 32>>) \o <<93>>

\* json.dumps(str) for text without characters that need escaping
DumpsStr(txt) == <<34>> \o txt \o <<34>>

\* descriptors.tolist() then json.dumps: "[[..], [..]]"
DumpsMatrix(rows) ==
  <<91>> \o JoinWith([i \in DOMAIN rows |-> DumpsIntList(rows[i])], <<44, 32>>) \o <<93>>

\* json.dumps({'shape': descriptors.shape, 'dtype': str(descriptors.dtype),
\*             'data': descriptors.tolist()})
json_dumps_descriptors(arr) ==
  <<123>> \o DumpsStr(TxtShape) \o <<58, 32>> \o DumpsIntList(arr.shape) \o <<44, 32>>
    \o DumpsStr(TxtDtype) \o <<58, 32>> \o DumpsStr(DtypeText(arr.dtype)) \o <<44, 32>>
    \o DumpsStr(TxtData) \o <<58, 32>> \o DumpsMatrix(arr.data) \o <<125>>

(***************************************************************************)
(* str.encode('utf-8') / bytes.decode('utf-8').                            *)
(***************************************************************************)
Utf8Char(c) ==
  IF c < 128 THEN <<c>>
  ELSE IF c < 2048 THEN <<192 + (c \div 64), 128 + (c % 64)>>
  ELSE <<224 + (c \div 4096), 128 + ((c \div 64) % 64), 128 + (c % 64)>>

utf8_encode(txt) ==
  IF \A i \in DOMAIN txt : txt[i] < 128 THEN txt
  ELSE Flatten([i \in DOMAIN txt |-> Utf8Char(txt[i])])

IsCont(b) == b >= 128 /\ b < 192

RECURSIVE Utf8From(_, _)
\* code points of bs[i..], or <<-1>> at the end when a byte sequence is malformed
Utf8From(bs, i) ==
  IF i > Len(bs) THEN <<>>
  ELSE LET b == bs[i] IN
    IF b < 128 THEN <<b>> \o Utf8From(bs, i + 1)
    ELSE IF b >= 194 /\ b < 224 /\ i + 1 <= Len(bs) /\ IsCont(bs[i + 1])
      THEN <<(b - 192) * 64 + (bs[i + 1] - 128)>> \o Utf8From(bs, i + 2)
    ELSE IF b >= 224 /\ b < 240 /\ i + 2 <= Len(bs) /\ IsCont(bs[i + 1]) /\ IsCont(bs[i + 2])
            /\ (b - 224) * 4096 + (bs[i + 1] - 128) * 64 + (bs[i + 2] - 128) >= 2048
      THEN <<(b - 224) * 4096 + (bs[i + 1] - 128) * 64 + (bs[i + 2] - 128)>>
             \o Utf8From(bs, i + 3)
    ELSE <<-1>>

\* bytes.decode('utf-8'): [ok |-> FALSE] models UnicodeDecodeError
utf8_decode(bs) ==
  IF \A i \in DOMAIN bs : bs[i] < 128 THEN [ok |-> TRUE, text |-> bs]
  ELSE LET t == Utf8From(bs, 1) IN
    IF t # <<>> /\ t[Len(t)] = -1 THEN [ok |-> FALSE, text |-> <<>>]
    ELSE [ok |-> TRUE, text |-> t]

(***************************************************************************)
(* base64.b64encode / base64.b64decode(validate=True) / bytes.fromhex.     *)
(***************************************************************************)
Pow64(p) == CASE p = 0 -> 1 [] p = 1 -> 64 [] p = 2 -> 4096 [] p = 3 -> 262144

b64encode(bs) ==
  LET n == Len(bs)
      Byte(i) == IF i <= n THEN bs[i] ELSE 0
      Group(k) == Byte(3 * k - 2) * 65536 + Byte(3 * k - 1) * 256 + Byte(3 * k)
  IN Tuple([j \in 1..(4 * ((n + 2) \div 3)) |->
        LET k == ((j - 1) \div 4) + 1
            p == (j - 1) % 4
        IN IF p >= 2 /\ 3 * (k - 1) + p > n THEN 61
           ELSE B64Alphabet[((Group(k) \div Pow64(3 - p)) % 64) + 1]])

\* value of a base64 digit, -1 for a character outside the alphabet
B64Value(c) ==
  IF c >= 65 /\ c <= 90 THEN c - 65
  ELSE IF c >= 97 /\ c <= 122 THEN c - 71
  ELSE IF c >= 48 /\ c <= 57 THEN c + 4
  ELSE IF c = 43 THEN 62
  ELSE IF c = 47 THEN 63
  ELSE -1

\* number of trailing '=' (at most 3 are looked at)
B64Pads(s) ==
  LET n == Len(s) IN
    IF n >= 1 /\ s[n] = 61
    THEN IF n >= 2 /\ s[n - 1] = 61
         THEN IF n >= 3 /\ s[n - 2] = 61 THEN 3 ELSE 2
         ELSE 1
    ELSE 0

\* validate=True: the string matches [A-Za-z0-9+/]*={0,2} and the digits and the
\* padding fill whole quads; anything else raises binascii.Error
B64Valid(s) ==
  LET pads == B64Pads(s) IN
    /\ pads <= 2
    /\ Len(s) % 4 = 0
    /\ \A i \in 1..(Len(s) - pads) : B64Value(s[i]) >= 0

\* the bytes of a valid base64 string
B64Bytes(s) ==
  LET pads == B64Pads(s)
      n == (Len(s) \div 4) * 3 - pads
      Val(i) == IF s[i] = 61 THEN 0 ELSE B64Value(s[i])
      Group(k) == Val(4 * k - 3) * 262144 + Val(4 * k - 2) * 4096
                    + Val(4 * k - 1) * 64 + Val(4 * k)
  IN Tuple([j \in 1..n |->
        LET k == ((j - 1) \div 3) + 1
            p == (j - 1) % 3
        IN (Group(k) \div (IF p = 0 THEN 65536 ELSE IF p = 1 THEN 256 ELSE 1)) % 256])

\* base64.b64decode(s, validate=True): [ok |-> FALSE] models binascii.Error
b64decode(s) ==
  IF B64Valid(s) THEN [ok |-> TRUE, bytes |-> B64Bytes(s)]
  ELSE [ok |-> FALSE, bytes |-> <<>>]

HexValue(c) ==
  IF c >= 48 /\ c <= 57 THEN c - 48
  ELSE IF c >= 97 /\ c <= 102 THEN c - 87
  ELSE IF c >= 65 /\ c <= 70 THEN c - 55
  ELSE -1

\* bytes.fromhex(s): [ok |-> FALSE] models ValueError (odd length, non-hex digit)
fromhex(s) ==
  IF Len(s) % 2 = 0 /\ \A i \in DOMAIN s : HexValue(s[i]) >= 0
  THEN [ok |-> TRUE,
        bytes |-> Tuple([j \in 1..(Len(s) \div 2) |->
                           HexValue(s[2 * j - 1]) * 16 + HexValue(s[2 * j])])]
  ELSE [ok |-> FALSE, bytes |-> <<>>]

(***************************************************************************)
(* json.loads: objects, arrays, strings without escapes and integers, the  *)
(* JSON the envelope is written in.  A parse result is                     *)
(* [ok, val, next]; values are tagged records [t, v].                      *)
(***************************************************************************)
JFail == [ok |-> FALSE, val |-> [t |-> "none", v |-> 0], next |-> 0]

IsWs(c) == c \in {32, 9, 10, 13}

RECURSIVE SkipWs(_, _)
SkipWs(s, i) == IF i <= Len(s) /\ IsWs(s[i]) THEN SkipWs(s, i + 1) ELSE i

RECURSIVE ScanDigits(_, _, _)
ScanDigits(s, i, acc) ==
  IF i <= Len(s) /\ s[i] >= 48 /\ s[i] <= 57
  THEN ScanDigits(s, i + 1, acc * 10 + (s[i] - 48))
  ELSE [v |-> acc, next |-> i]

RECURSIVE ScanStr(_, _)
\* index of the closing quote of a string whose text starts at i, 0 if none
ScanStr(s, i) ==
  IF i > Len(s) THEN 0
  ELSE IF s[i] = 34 THEN i
  ELSE IF s[i] = 92 \/ s[i] < 32 THEN 0
  ELSE ScanStr(s, i + 1)

ParseInt(s, i) ==
  IF i > Len(s) THEN JFail ELSE
  LET neg == s[i] = 45
      st == IF neg THEN i + 1 ELSE i
      d == ScanDigits(s, st, 0)
  IN IF d.next = st THEN JFail
     ELSE IF d.next <= Len(s) /\ s[d.next] \in {46, 101, 69} THEN JFail
     ELSE [ok |-> TRUE, val |-> [t |-> "num", v |-> IF neg THEN 0 - d.v ELSE d.v],
           next |-> d.next]

ParseStr(s, i) ==
  LET j == ScanStr(s, i + 1) IN
    IF j = 0 THEN JFail
    ELSE [ok |-> TRUE, val |-> [t |-> "str", v |-> SubSeq(s, i + 1, j - 1)], next |-> j + 1]

\* s[i..] starts a list element that is a number
IsNumberStart(s, i) == i <= Len(s) /\ (s[i] = 45 \/ (s[i] >= 48 /\ s[i] <= 57))

\* the first index from i on that holds a bracket, a brace or a quote, 0 if none
NextBracket(s, i) ==
  LET at == {j \in i..Len(s) : s[j] \in {91, 93, 123, 125, 34}} IN
    IF at = {} THEN 0 ELSE CHOOSE j \in at : \A k \in at : j <= k

\* the elements of a list of numbers whose text is s[i..close - 1], s[close]
\* being its closing bracket: the text is cut at the commas and every piece has
\* to be one number
ParseNumbers(s, i, close) ==
  LET commas == SelectSeq([j \in 1..(close - i) |-> i + j - 1], LAMBDA j : s[j] = 44)
      n == Len(commas) + 1
      From(t) == IF t = 1 THEN i ELSE commas[t - 1] + 1
      To(t) == IF t = n THEN close ELSE commas[t]
      Piece(t) == ParseInt(s, SkipWs(s, From(t)))
      pieces == Tuple([t \in 1..n |-> Piece(t)])
  IN IF \A t \in 1..n : pieces[t].ok /\ SkipWs(s, pieces[t].next) = To(t)
     THEN [ok |-> TRUE, val |-> [t |-> "arr", v |-> Tuple([t \in 1..n |-> pieces[t].val])],
           next |-> close + 1]
     ELSE JFail

RECURSIVE ParseValue(_, _)
RECURSIVE ParseElems(_, _, _)
RECURSIVE ParseMembers(_, _, _)

ParseValue(s, i) ==
  IF i > Len(s) THEN JFail
  ELSE IF s[i] = 34 THEN ParseStr(s, i)
  ELSE IF s[i] = 45 \/ (s[i] >= 48 /\ s[i] <= 57) THEN ParseInt(s, i)
  ELSE IF s[i] = 91 THEN
    LET k == SkipWs(s, i + 1) IN
      IF k <= Len(s) /\ s[k] = 93
      THEN [ok |-> TRUE, val |-> [t |-> "arr", v |-> <<>>], next |-> k + 1]
      ELSE IF IsNumberStart(s, k) /\ NextBracket(s, k) > 0 /\ s[NextBracket(s, k)] = 93
      THEN ParseNumbers(s, k, NextBracket(s, k))
      ELSE ParseElems(s, k, <<>>)
  ELSE IF s[i] = 123 THEN
    LET k == SkipWs(s, i + 1) IN
      IF k <= Len(s) /\ s[k] = 125
      THEN [ok |-> TRUE, val |-> [t |-> "obj", v |-> <<>>], next |-> k + 1]
      ELSE ParseMembers(s, k, <<>>)
  ELSE JFail

ParseElems(s, i, acc) ==
  LET e == ParseValue(s, i) IN
    IF ~e.ok THEN JFail
    ELSE LET k == SkipWs(s, e.next) IN
      IF k > Len(s) THEN JFail
      ELSE IF s[k] = 44 THEN ParseElems(s, SkipWs(s, k + 1), Append(acc, e.val))
      ELSE IF s[k] = 93
        THEN [ok |-> TRUE, val |-> [t |-> "arr", v |-> Append(acc, e.val)], next |-> k + 1]
      ELSE JFail

ParseMembers(s, i, acc) ==
  IF i > Len(s) \/ s[i] # 34 THEN JFail
  ELSE LET key == ParseStr(s, i) IN
    IF ~key.ok THEN JFail
    ELSE LET c == SkipWs(s, key.next) IN
      IF c > Len(s) \/ s[c] # 58 THEN JFail
      ELSE LET e == ParseValue(s, SkipWs(s, c + 1)) IN
        IF ~e.ok THEN JFail
        ELSE LET k == SkipWs(s, e.next)
                 m == [key |-> key.val.v, val |-> e.val]
             IN IF k > Len(s) THEN JFail
                ELSE IF s[k] = 44 THEN ParseMembers(s, SkipWs(s, k + 1), Append(acc, m))
                ELSE IF s[k] = 125
                  THEN [ok |-> TRUE, val |-> [t |-> "obj", v |-> Append(acc, m)],
                        next |-> k + 1]
                ELSE JFail

\* json.loads(text): [ok |-> FALSE] models json.JSONDecodeError
json_loads(txt) ==
  LET r == ParseValue(txt, SkipWs(txt, 1)) IN
    IF r.ok /\ SkipWs(txt, r.next) = Len(txt) + 1
    THEN [ok |-> TRUE, val |-> r.val]
    ELSE [ok |-> FALSE, val |-> JFail.val]

\* d[key] on a parsed value: [ok |-> FALSE] models KeyError / TypeError
DictGet(d, key) ==
  IF d.t # "obj" THEN [ok |-> FALSE, val |-> JFail.val]
  ELSE LET hits == {i \in DOMAIN d.v : d.v[i].key = key} IN
    IF hits = {} THEN [ok |-> FALSE, val |-> JFail.val]
    ELSE [ok |-> TRUE, val |-> d.v[CHOOSE i \in hits : \A j \in hits : j <= i].val]

(***************************************************************************)
(* numpy arrays: [dtype, shape, data]; data is the list of rows of a 2-D   *)
(* array, the list of elements of a 1-D array.                             *)
(***************************************************************************)
NoArray == [dtype |-> "none", shape |-> <<>>, data |-> <<>>]

IsNumList(v) == v.t = "arr" /\ \A i \in DOMAIN v.v : v.v[i].t = "num"

NumList(v) == Tuple([i \in DOMAIN v.v |-> v.v[i].v])

\* every element fits the element type (numpy raises OverflowError otherwise)
FitsDtype(dtype, xs) == dtype # "uint8" \/ \A i \in DOMAIN xs : xs[i] >= 0 /\ xs[i] <= 255

\* np.array(data, dtype=dtype) on parsed JSON: [ok |-> FALSE] models the TypeError /
\* ValueError / OverflowError numpy raises for an unknown element type, ragged or
\* non-numeric data, or a value out of range
np_array(data, dtype) ==
  LET dt == IF dtype.t = "str" THEN DtypeOf(dtype.v) ELSE "bad" IN
    IF dt = "bad" \/ data.t # "arr" THEN [ok |-> FALSE, arr |-> NoArray]
    ELSE IF data.v = <<>>
      THEN [ok |-> TRUE, arr |-> [dtype |-> dt, shape |-> <<0>>, data |-> <<>>]]
    ELSE IF IsNumList(data)
      THEN IF FitsDtype(dt, NumList(data))
           THEN [ok |-> TRUE,
                 arr |-> [dtype |-> dt, shape |-> <<Len(data.v)>>, data |-> NumList(data)]]
           ELSE [ok |-> FALSE, arr |-> NoArray]
    ELSE IF /\ \A i \in DOMAIN data.v : IsNumList(data.v[i])
            /\ \A i \in DOMAIN data.v : Len(data.v[i].v) = Len(data.v[1].v)
            /\ \A i \in DOMAIN data.v : FitsDtype(dt, NumList(data.v[i]))
      THEN [ok |-> TRUE,
            arr |-> [dtype |-> dt, shape |-> <<Len(data.v), Len(data.v[1].v)>>,
                     data |-> Tuple([i \in DOMAIN data.v |-> NumList(data.v[i])])]]
    ELSE [ok |-> FALSE, arr |-> NoArray]

(***************************************************************************)
(* pickle: the legacy binary form.  A pickled descriptor matrix is         *)
(* modelled as PROTO(128) 2 rows width <rows*width raw bytes> STOP(46);    *)
(* its first byte is never the start of UTF-8 text.                        *)
(***************************************************************************)
pickle_dumps(arr) ==
  <<128, 2, arr.shape[1], arr.shape[2]>> \o Flatten(arr.data) \o <<46>>

\* pickle.loads(bytes): [ok |-> FALSE] models pickle.UnpicklingError / EOFError
pickle_loads(bs) ==
  IF /\ Len(bs) >= 5
     /\ bs[1] = 128 /\ bs[2] = 2 /\ bs[Len(bs)] = 46
     /\ Len(bs) = 5 + bs[3] * bs[4]
  THEN [ok |-> TRUE,
        arr |-> [dtype |-> "uint8", shape |-> <<bs[3], bs[4]>>,
                 data |-> Tuple([r \in 1..bs[3] |->
                                   Tuple([c \in 1..bs[4] |-> bs[4 + (r - 1) * bs[4] + c]])])]]
  ELSE [ok |-> FALSE, arr |-> NoArray]

(***************************************************************************)
(* safe_decode_features (users.py 133-211).                                *)
(***************************************************************************)
\* str.strip(): leading and trailing whitespace removed
PyWhitespace == (9..13) \cup (28..32) \cup {133, 160}

Strip(s) ==
  LET keep == {i \in DOMAIN s : s[i] \notin PyWhitespace} IN
    IF keep = {} THEN <<>>
    ELSE SubSeq(s, CHOOSE i \in keep : \A j \in keep : i <= j,
                   CHOOSE i \in keep : \A j \in keep : j <= i)

DecodeRaise == [ok |-> FALSE, kind |-> "none", data |-> <<>>, branch |-> "none"]

\* a decoder that takes every byte string for JSON text
JsonOrPickleAlwaysJson(bytes, branch) ==
  [ok |-> TRUE, kind |-> "json", data |-> bytes, branch |-> branch]

\* "Try to decode as UTF-8 first (for JSON data)", else the bytes are pickle data
JsonOrPickle(bytes, branch) ==
  LET u == utf8_decode(bytes) IN
    IF u.ok THEN [ok |-> TRUE, kind |-> "json", data |-> u.text, branch |-> branch]
    ELSE [ok |-> TRUE, kind |-> "pickle", data |-> bytes, branch |-> branch]

\* features_str.startswith('\\x')
StartsWithEscape(s) == Len(s) >= 2 /\ s[1] = 92 /\ s[2] = 120

\* all(c in '0123456789abcdefABCDEF' for c in features_str)
AllHex(s) == \A i \in DOMAIN s : s[i] \in HexAlphabet

\* the base64 branch: direct decode, then the padding fix
DecodeBase64Branch(s) ==
  LET direct == b64decode(s) IN
    IF direct.ok THEN JsonOrPickle(direct.bytes, "base64")
    ELSE LET missing_padding == Len(s) % 4 IN
      IF missing_padding # 0
      THEN LET padded == b64decode(s \o [i \in 1..(4 - missing_padding) |-> 61]) IN
             IF padded.ok THEN JsonOrPickle(padded.bytes, "base64_padded")
             ELSE DecodeRaise
      ELSE DecodeRaise

\* Python's None where a string is expected
PyNone == <<-1>>

\* a decoder that hands a string whose hex decoding fails on to the base64 branch
SafeDecodeFallsThrough(features_str) ==
  IF features_str = PyNone THEN DecodeRaise
  ELSE IF features_str = <<>> THEN DecodeRaise
  ELSE LET s == Strip(features_str) IN
    IF StartsWithEscape(s) THEN
      LET h == fromhex(SubSeq(s, 3, Len(s))) IN
        IF h.ok THEN JsonOrPickle(h.bytes, "escape_hex") ELSE DecodeBase64Branch(s)
    ELSE IF AllHex(s) THEN
      LET h == fromhex(s) IN
        IF h.ok THEN JsonOrPickle(h.bytes, "plain_hex") ELSE DecodeBase64Branch(s)
    ELSE DecodeBase64Branch(s)

\* features_str is None or a string; the result is (decoded_data, data_type), or
\* the exception re-raised at line 211
safe_decode_features(features_str) ==
  IF features_str = PyNone THEN DecodeRaise
  ELSE IF features_str = <<>> THEN DecodeRaise
  ELSE LET s == Strip(features_str) IN
    IF StartsWithEscape(s) THEN
      LET h == fromhex(SubSeq(s, 3, Len(s))) IN
        IF h.ok THEN JsonOrPickle(h.bytes, "escape_hex") ELSE DecodeRaise
    ELSE IF AllHex(s) THEN
      LET h == fromhex(s) IN
        IF h.ok THEN JsonOrPickle(h.bytes, "plain_hex") ELSE DecodeRaise
    ELSE DecodeBase64Branch(s)

\* users.py 224-244 and 356-361: the descriptor array of a decoded envelope;
\* [ok |-> FALSE] models the exception raised when deserialization fails
deserialize(decoded) ==
  IF decoded.kind = "json" THEN
    LET j == json_loads(decoded.data) IN
      IF ~j.ok THEN [ok |-> FALSE, arr |-> NoArray]
      ELSE LET data == DictGet(j.val, TxtData)
               dtype == DictGet(j.val, TxtDtype)
           IN IF data.ok /\ dtype.ok THEN np_array(data.val, dtype.val)
              ELSE [ok |-> FALSE, arr |-> NoArray]
  ELSE pickle_loads(decoded.data)

\* decode: safe_decode_features followed by deserialization
decode(features_str) ==
  LET d == safe_decode_features(features_str) IN
    IF d.ok THEN deserialize(d) ELSE [ok |-> FALSE, arr |-> NoArray]

\* encode (users.py 109-121): base64 of the UTF-8 JSON text
encode(descriptors) == b64encode(utf8_encode(json_dumps_descriptors(descriptors)))

(***************************************************************************)
(* cv2.BFMatcher(cv2.NORM_HAMMING, crossCheck=True).match (users.py 257).  *)
(***************************************************************************)
\* bit k of a byte
Bit(x, k) == (x \div (2 ^ k)) % 2

\* NORM_HAMMING distance of two descriptor rows of equal width: the number of
\* bit positions in which they differ
Hamming(a, b) ==
  Cardinality({p \in (1..Len(a)) \X (0..7) : Bit(a[p[1]], p[2]) # Bit(b[p[1]], p[2])})

\* rows of an array as OpenCV sees it
IsMatrix(arr) == Len(arr.shape) = 2

NRows(arr) == IF arr.shape = <<>> THEN 0 ELSE arr.shape[1]

\* the train row nearest to q and its distance; of several equally near rows
\* the scan keeps the first
Nearest(q, train) ==
  Bind(Tuple([j \in DOMAIN train |-> Hamming(q, train[j])]),
       LAMBDA dist :
         LET idx == CHOOSE j \in DOMAIN train :
                      \A k \in DOMAIN train :
                         dist[j] < dist[k] \/ (dist[j] = dist[k] /\ j <= k)
         IN [idx |-> idx, dist |-> dist[idx]])

\* for every query row, its nearest train row and the distance
NearestAll(query, train) == Tuple([i \in DOMAIN query |-> Nearest(query[i], train)])

\* the matcher without the cross check: every query row keeps its nearest
WinsWithoutCrossCheck(nn, i) == TRUE

\* the cross check: a train row keeps, among the query rows that name it, the
\* nearest (the first on a tie)
Wins(nn, i) ==
  \A k \in DOMAIN nn :
    (k # i /\ nn[k].idx = nn[i].idx) =>
       \/ nn[i].dist < nn[k].dist
       \/ (nn[i].dist = nn[k].dist /\ i < k)

\* one DMatch for every query row that survives the cross check, in query order
CollectMatches(nn) ==
  SelectSeq(Tuple([i \in DOMAIN nn |->
                     [queryIdx |-> i, trainIdx |-> nn[i].idx, distance |-> nn[i].dist]]),
            LAMBDA m : Wins(nn, m.queryIdx))

\* cross-checked pairs of two non-empty lists of rows
CrossCheck(query, train) ==
  Bind(NearestAll(query, train), LAMBDA nn : CollectMatches(nn))

\* bf.match(search_descriptors, stored_descriptors): [ok |-> FALSE] models the
\* cv2.error raised for descriptors that are not 8-bit or differ in width
BFMatch(query, train) ==
  IF NRows(query) = 0 THEN [ok |-> TRUE, matches |-> <<>>]
  ELSE IF query.dtype # "uint8" \/ train.dtype # "uint8" THEN [ok |-> FALSE, matches |-> <<>>]
  ELSE IF ~IsMatrix(query) \/ ~IsMatrix(train) THEN [ok |-> FALSE, matches |-> <<>>]
  ELSE IF query.shape[2] # train.shape[2] THEN [ok |-> FALSE, matches |-> <<>>]
  ELSE IF NRows(train) = 0 THEN [ok |-> TRUE, matches |-> <<>>]
  ELSE [ok |-> TRUE, matches |-> CrossCheck(query.data, train.data)]

\* sorted(matches, key=lambda x: x.distance), a stable sort: a match goes behind
\* those of smaller distance and those of equal distance that came before it
SortByDistance(ms) ==
  LET Before(i) ==
        Cardinality({j \in DOMAIN ms :
                       \/ ms[j].distance < ms[i].distance
                       \/ (ms[j].distance = ms[i].distance /\ j < i)})
  IN Tuple([r \in DOMAIN ms |-> ms[CHOOSE i \in DOMAIN ms : Before(i) = r - 1]])

(***************************************************************************)
(* match_features (users.py 213-299).  A MatchScore is a record; a float   *)
(* quotient a / b is kept as [num |-> a, den |-> b], float('inf') as       *)
(* [num |-> 1, den |-> 0], the literal 0.0 as [num |-> 0, den |-> 1].      *)
(***************************************************************************)
Inf == [num |-> 1, den |-> 0]

Zero == [num |-> 0, den |-> 1]

\* a zero score that answers 0.0 for the average distance
ZeroScoreFiniteAverage ==
  [good_matches |-> 0, total_matches |-> 0, avg_distance |-> [num |-> 0, den |-> 1],
   match_ratio |-> [num |-> 0, den |-> 1], is_match |-> FALSE]

\* the score of lines 280-286 and of the handler at 293-299
ZeroScore ==
  [good_matches |-> 0, total_matches |-> 0, avg_distance |-> Inf,
   match_ratio |-> Zero, is_match |-> FALSE]

\* search_descriptors.astype(stored_descriptors.dtype) when the types differ
AsType(arr, dtype) == [arr EXCEPT !.dtype = dtype]

\* lines 264-286: the metrics of a list of matches
Score(matches, n_search, n_stored, min) ==
  Bind(SelectSeq(matches, LAMBDA m : m.distance < GoodDistance),
       LAMBDA good_matches :
         IF Len(good_matches) > 0
         THEN [good_matches |-> Len(good_matches),
               total_matches |-> Len(matches),
               avg_distance |-> [num |-> SumSeq([i \in DOMAIN good_matches |->
                                                   good_matches[i].distance]),
                                 den |-> Len(good_matches)],
               match_ratio |-> [num |-> Len(good_matches),
                                den |-> Min2(n_search, n_stored)],
               is_match |-> Len(good_matches) >= min]
         ELSE ZeroScore)

\* lines 249-286 once the stored descriptors are deserialized
MatchArrays(search_descriptors, stored_descriptors, min) ==
  IF stored_descriptors.shape = <<>> THEN ZeroScore
  ELSE Bind(IF search_descriptors.dtype # stored_descriptors.dtype
            THEN AsType(search_descriptors, stored_descriptors.dtype)
            ELSE search_descriptors,
            LAMBDA search :
              Bind(BFMatch(search, stored_descriptors),
                   LAMBDA bf :
                     IF ~bf.ok THEN ZeroScore
                     ELSE Bind(SortByDistance(bf.matches),
                               LAMBDA matches :
                                 Score(matches, NRows(search),
                                       NRows(stored_descriptors), min))))

\* match_features(search_descriptors, stored_features_str, min_matches): every
\* exception of the body is caught at line 288 and yields the zero score
match_features(search_descriptors, stored_features_str, min) ==
  Bind(decode(stored_features_str),
       LAMBDA stored :
         IF ~stored.ok THEN ZeroScore
         ELSE MatchArrays(search_descriptors, stored.arr, min))

(***************************************************************************)
(* Descriptor data.  ORB output is modelled by rows of a Hadamard code:    *)
(* row v has byte b all ones when v and b share an odd number of set bits, *)
(* so two different rows are 128 bits apart.  FlipBits moves a row a       *)
(* chosen number of bits away.                                             *)
(***************************************************************************)
Parity(v, b) == SumSeq([k \in 1..5 |-> Bit(v, k - 1) * Bit(b, k - 1)]) % 2

HRow(v) == Tuple([j \in 1..DescWidth |-> IF Parity(v, j - 1) = 1 THEN 255 ELSE 0])

RECURSIVE BitXor(_, _)
BitXor(x, y) ==
  IF x = 0 /\ y = 0 THEN 0 ELSE (((x % 2) + (y % 2)) % 2) + 2 * BitXor(x \div 2, y \div 2)

\* the row with its first t bits (low bits of each byte first) inverted
FlipBits(row, t) ==
  Tuple([j \in DOMAIN row |->
           IF 8 * j <= t THEN BitXor(row[j], 255)
           ELSE IF 8 * (j - 1) < t THEN BitXor(row[j], (2 ^ (t - 8 * (j - 1))) - 1)
           ELSE row[j]])

\* a uint8 descriptor matrix (numpy array of shape (N, 32))
Descriptors(rows) ==
  [dtype |-> "uint8", shape |-> <<Len(rows), DescWidth>>, data |-> Tuple(rows)]

\* rows of the large probe: more than min_matches
NProbe == min_matches + ExtraRows

\* descriptors ORB computes for the images of the model
ProbeA == Descriptors([i \in 1..NProbe |-> HRow(i)])

ProbeB == Descriptors([i \in 1..ExtraRows |-> HRow(i)])

\* descriptor sets enrolled earlier, named by what they are to ProbeA
\*   full:   the same rows in reverse order
\*   near:   every row 10 bits away
\*   thresh: exactly min_matches of the rows
\*   below:  one row fewer than min_matches
\*   edge:   one row 50 bits away, one 49 bits away, the others equal
\*   far:    three rows, each 50 bits away
\* and small sets for calls of match_features on their own
\*   one:    the first row
\*   two:    the first two rows, in reverse order
\*   mixed:  the first row 5 bits away, the second 49 bits away, a third equal
StoredSet(name) ==
  CASE name = "full" -> Descriptors([i \in 1..NProbe |-> HRow(NProbe + 1 - i)])
    [] name = "near" -> Descriptors([i \in 1..NProbe |-> FlipBits(HRow(i), 10)])
    [] name = "thresh" -> Descriptors([i \in 1..min_matches |-> HRow(i)])
    [] name = "below" -> Descriptors([i \in 1..(min_matches - 1) |-> HRow(i)])
    [] name = "edge" ->
         Descriptors([i \in 1..NProbe |->
                        FlipBits(HRow(i), IF i = 1 THEN GoodDistance
                                          ELSE IF i = 2 THEN GoodDistance - 1 ELSE 0)])
    [] name = "far" -> Descriptors([i \in 1..3 |-> FlipBits(HRow(i), GoodDistance)])
    [] name = "one" -> Descriptors(<<HRow(1)>>)
    [] name = "two" -> Descriptors(<<HRow(2), HRow(1)>>)
    [] name = "mixed" ->
         Descriptors(<<FlipBits(HRow(1), 5), FlipBits(HRow(2), GoodDistance - 1), HRow(3)>>)

(***************************************************************************)
(* Stored feature columns (users.face_features_orb / thumb_features_orb).  *)
(***************************************************************************)
\* "not base64!!"
TxtGarbage == <<110, 111, 116, 32, 98, 97, 115, 101, 54, 52, 33, 33>>

\* {"shape": [0, 32], "dtype": "uint8", "data": []}
EmptyEnvelope ==
  b64encode(utf8_encode(
    <<123>> \o DumpsStr(TxtShape) \o <<58, 32>> \o DumpsIntList(<<0, DescWidth>>) \o <<44, 32>>
      \o DumpsStr(TxtDtype) \o <<58, 32>> \o DumpsStr(TxtUint8) \o <<44, 32>>
      \o DumpsStr(TxtData) \o <<58, 32>> \o <<91, 93>> \o <<125>>))

DescriptorSetNames == {"full", "near", "thresh", "below", "edge", "far", "one", "two", "mixed"}

\* the text of a stored column, by name:
\*   a descriptor set name: the envelope extract_features wrote for it
\*   empty:   the envelope of a set without rows
\*   int32:   the envelope of "far" with element type int32
\*   cut:     the first 64 characters of an envelope (a truncated write)
\*   garbage: text that is no envelope at all
\*   None:    the column is NULL
StoredText(name) ==
  IF name \in DescriptorSetNames THEN encode(StoredSet(name))
  ELSE IF name = "None" THEN PyNone
  ELSE IF name = "empty" THEN EmptyEnvelope
  ELSE IF name = "int32" THEN encode(AsType(StoredSet("far"), "int32"))
  ELSE IF name = "cut" THEN SubSeq(encode(StoredSet("far")), 1, 64)
  ELSE TxtGarbage

StoredNames == DescriptorSetNames \cup {"empty", "int32", "cut", "garbage", "None"}

(***************************************************************************)
(* Images.  A request image is a data-URI string; the model names the      *)
(* images and gives for each what cv2 makes of it.                         *)
(*   ""        the empty string                                            *)
(*   "garbage" a data URI whose payload cv2.imdecode cannot read (None)    *)
(*   "gray"    a solid gray image: ORB finds no keypoint                   *)
(*   "imgA"    an image with NProbe keypoints                              *)
(*   "imgB"    an image with ExtraRows keypoints                           *)
(***************************************************************************)
ImageNames == {"", "garbage", "gray", "imgA", "imgB"}

\* cv2.imdecode returns an image
Decodable(img) == img \in {"gray", "imgA", "imgB"}

\* cv2.resize(img, (8, 8), interpolation=cv2.INTER_AREA).flatten()
Resized(img) ==
  [i \in 1..64 |->
     IF img = "gray" THEN 128
     ELSE IF img = "imgA" THEN (i * 37) % 256
     ELSE IF ((i - 1) \div 8 + (i - 1)) % 2 = 0 THEN 255 ELSE 0]

\* orb.detectAndCompute(img, None): the descriptors, NoArray for None
OrbDescriptors(img) ==
  IF img = "imgA" THEN ProbeA ELSE IF img = "imgB" THEN ProbeB ELSE NoArray

(***************************************************************************)
(* image_hash (hash_utils.py 5-21).                                        *)
(***************************************************************************)
\* str.zfill(width)
ZFill(s, width) == [i \in 1..(IF Len(s) < width THEN width - Len(s) ELSE 0) |-> 48] \o s

\* a comparison that writes 'T' / 'F' for the bits
HashBitsAsLetters(pixels) ==
  LET total == SumSeq(pixels) IN
    [i \in DOMAIN pixels |-> IF pixels[i] * Len(pixels) > total THEN 84 ELSE 70]

\* a comparison that takes a sample equal to the mean for a '1'
HashBitsAtLeastMean(pixels) ==
  LET total == SumSeq(pixels) IN
    [i \in DOMAIN pixels |-> IF pixels[i] * Len(pixels) >= total THEN 49 ELSE 48]

\* lines 16-21: pixel > pixels.mean(), as characters '1' / '0'
HashBits(pixels) ==
  LET total == SumSeq(pixels) IN
    [i \in DOMAIN pixels |-> IF pixels[i] * Len(pixels) > total THEN 49 ELSE 48]

\* [ok |-> FALSE] models the IndexError of split(",")[1] on a string without a
\* comma and the cv2.error of resizing the None that imdecode returned
ImageHashOf(decodable, resized) ==
  IF ~decodable THEN [ok |-> FALSE, hash |-> <<>>]
  ELSE [ok |-> TRUE, hash |-> ZFill(HashBits(resized), 64)]

\* image_hash of a named image
image_hash(img) == ImageHashOf(Decodable(img), Resized(img))

(***************************************************************************)
(* extract_features (users.py 81-131, register.py 87-137).                 *)
(***************************************************************************)
NoFeatures == [features |-> PyNone, keypoints |-> 0]

\* an extractor that writes the envelope of an empty set for an image it cannot
\* read
ExtractFeaturesEmptyEnvelope(img) ==
  IF img = "" \/ img = "None" THEN NoFeatures
  ELSE IF ~Decodable(img) THEN [features |-> EmptyEnvelope, keypoints |-> 0]
  ELSE LET descriptors == OrbDescriptors(img) IN
    IF descriptors # NoArray
    THEN [features |-> encode(descriptors), keypoints |-> NRows(descriptors)]
    ELSE NoFeatures

\* users.py: (base64_features, len(keypoints)), (None, 0) when the image is
\* empty, unreadable (the exception is swallowed) or without descriptors
extract_features(img) ==
  IF img = "" \/ img = "None" THEN NoFeatures
  ELSE IF ~Decodable(img) THEN NoFeatures
  ELSE LET descriptors == OrbDescriptors(img) IN
    IF descriptors # NoArray
    THEN [features |-> encode(descriptors), keypoints |-> NRows(descriptors)]
    ELSE NoFeatures

\* register.py: the same function, defined again in the enrollment router
register_extract_features(img) ==
  IF img = "" \/ img = "None" THEN NoFeatures
  ELSE IF ~Decodable(img) THEN NoFeatures
  ELSE LET descriptors == OrbDescriptors(img) IN
    IF descriptors # NoArray
    THEN [features |-> encode(descriptors), keypoints |-> NRows(descriptors)]
    ELSE NoFeatures

(***************************************************************************)
(* State.                                                                  *)
(***************************************************************************)
VARIABLES
  pc,                  \* position of the running handler
  image,               \* search_user: req.image
  search_bucket,       \* search_user: bucket_res.data
  candidates,          \* search_user: match_res.data
  search_descriptors,  \* search_user: the image whose descriptors are held
  idx,                 \* search_user: candidates already visited by the loop
  fetched,             \* what the record store answered for each visited candidate
  best_match,          \* search_user: best_match
  best_score,          \* search_user: best_score
  response,            \* what the handler returned
  computed,            \* values of the pure functions, computed once (see below)
  face_image,          \* register_user: req.face_image
  thumb_image,         \* register_user: req.thumb_image
  face_hash,           \* register_user: face_hash
  thumb_hash,          \* register_user: thumb_hash
  bucket_res,          \* register_user: what get_hash_bucket answered, per modality
  face_bucket,         \* register_user: face_bucket
  thumb_bucket,        \* register_user: thumb_bucket
  face_features_str,   \* register_user: face_features_str
  thumb_features_str,  \* register_user: thumb_features_str
  user_data,           \* register_user: the row given to the insert
  reg_response,        \* register_user: what the handler returned
  call,                \* the arguments of a call of one of the pure functions
  result               \* the value that call returned

searchvars == <<image, search_bucket, candidates, search_descriptors, idx, fetched,
                best_match, best_score, response>>

regvars == <<face_image, thumb_image, face_hash, thumb_hash, bucket_res, face_bucket,
             thumb_bucket, face_features_str, thumb_features_str, user_data, reg_response>>

callvars == <<call, result>>

vars == <<pc, computed, searchvars, regvars, callvars>>

(***************************************************************************)
(* Values computed once.  extract_features, decode and match_features are  *)
(* pure; search_user applies them to the request image and to the stored   *)
(* columns.  Their values for the images and columns of the model are      *)
(* computed in the initial state and kept in the variable computed, which  *)
(* no action changes; the actions look them up by image and column name.   *)
(***************************************************************************)
ImageSeq == <<"", "garbage", "gray", "imgA", "imgB">>

ImageIndex(img) == CHOOSE k \in DOMAIN ImageSeq : ImageSeq[k] = img

\* users.py 349-361: extract_features, then the decode of its envelope
SearchDescriptorsOf(img) ==
  Bind(extract_features(img), LAMBDA f :
    IF f.features = PyNone
    THEN [none |-> TRUE, ok |-> FALSE, arr |-> NoArray]
    ELSE Bind(decode(f.features),
              LAMBDA d : [none |-> FALSE, ok |-> d.ok, arr |-> d.arr]))

\* answers of the per-candidate select of the features column that hold text
SearchStored == <<"full", "near", "thresh", "below", "int32", "cut", "garbage">>

StoredIndex(name) == CHOOSE k \in DOMAIN SearchStored : SearchStored[k] = name

RECURSIVE ScoreRow(_, _)
\* match_features(search_descriptors, stored_features) as search_user calls it,
\* with the default min_matches, for the stored columns from the k-th on
ScoreRow(probe, k) ==
  IF k > Len(SearchStored) THEN <<>>
  ELSE <<match_features(probe, StoredText(SearchStored[k]), min_matches)>>
         \o ScoreRow(probe, k + 1)

RECURSIVE SearchTable(_)
\* for the images from the k-th on: the probe and its score against every column
SearchTable(k) ==
  IF k > Len(ImageSeq) THEN <<>>
  ELSE Bind(SearchDescriptorsOf(ImageSeq[k]),
            LAMBDA probe :
              <<[none |-> probe.none, ok |-> probe.ok,
                 scores |-> IF probe.ok THEN ScoreRow(probe.arr, 1) ELSE <<>>]>>)
         \o SearchTable(k + 1)

\* search_features_b64 is None
NoSearchFeatures(img) == computed[ImageIndex(img)].none

\* the decode of search_features_b64 succeeded
SearchDecoded(img) == computed[ImageIndex(img)].ok

\* match_result = match_features(search_descriptors, stored_features)
MatchResult(img, name) == computed[ImageIndex(img)].scores[StoredIndex(name)]

(***************************************************************************)
(* search_user (users.py 301-442).                                         *)
(***************************************************************************)
\* bucket_res.data is None
NoData == -1

\* answers of supabase.rpc("get_hash_bucket"): an exception, no data, a bucket
HashBucketAnswers ==
  {[raised |-> TRUE, data |-> NoData], [raised |-> FALSE, data |-> NoData],
   [raised |-> FALSE, data |-> 0], [raised |-> FALSE, data |-> 7]}

\* answers of supabase.rpc("find_best_match"): an exception, None, or a list of
\* n candidates in the order the index ranks them (n = 0: the empty list)
FindAnswers ==
  {[raised |-> TRUE, none |-> FALSE, n |-> 0], [raised |-> FALSE, none |-> TRUE, n |-> 0]}
    \cup {[raised |-> FALSE, none |-> FALSE, n |-> n] : n \in 0..MaxCands}

\* the candidate rows find_best_match returns
CandidateList(n) == [k \in 1..n |-> [id |-> 100 + k, distance |-> 10 * k]]

\* answers of the per-candidate select of the features column:
\*   raise  the query raises;  norow  feature_res.data is empty;
\*   null   the column is None or the empty string;  otherwise a stored column
FetchAnswers == {"raise", "norow", "null"} \cup Range(SearchStored)

NoUser == [id |-> 0, distance |-> 0]

\* best_match = None
NoBest == [set |-> FALSE, user |-> NoUser, match_details |-> ZeroScore]

\* the handler has not answered; detail is that of an HTTPException
NoResponse ==
  [match |-> FALSE, reason |-> "none", user |-> NoUser, opencv_details |-> ZeroScore,
   detail |-> "none"]

\* lines 440-442: HTTPException(status_code=500, detail=str(e))
HTTP500(e) == [NoResponse EXCEPT !.detail = e]

\* the comparison of line 392 with >= in place of >: a later candidate takes an
\* equal score
UpdateBestOnTie(acc, candidate, match_result) ==
  IF match_result.is_match /\ match_result.good_matches >= acc.best_score
  THEN [best_score |-> match_result.good_matches,
        best_match |-> [set |-> TRUE, user |-> candidate, match_details |-> match_result]]
  ELSE acc

\* an update that takes the candidate but leaves best_score as it was
UpdateBestKeepsScore(acc, candidate, match_result) ==
  IF match_result.is_match /\ match_result.good_matches > acc.best_score
  THEN [best_score |-> acc.best_score,
        best_match |-> [set |-> TRUE, user |-> candidate, match_details |-> match_result]]
  ELSE acc

\* lines 391-397: the accumulator after a candidate's match_result
UpdateBest(acc, candidate, match_result) ==
  IF match_result.is_match /\ match_result.good_matches > acc.best_score
  THEN [best_score |-> match_result.good_matches,
        best_match |-> [set |-> TRUE, user |-> candidate, match_details |-> match_result]]
  ELSE acc

\* the loop body with a handler that forgets the best candidate when the select
\* raises
RankStepFailureResets(acc, probe, candidate, answer) ==
  IF answer = "raise" THEN [best_score |-> 0, best_match |-> NoBest]
  ELSE IF answer \in {"norow", "null"} THEN acc
  ELSE UpdateBest(acc, candidate, MatchResult(probe, answer))

\* the loop body forgetting the best candidate when the column is absent
RankStepAbsentResets(acc, probe, candidate, answer) ==
  IF answer = "raise" THEN acc
  ELSE IF answer \in {"norow", "null"} THEN [best_score |-> 0, best_match |-> NoBest]
  ELSE UpdateBest(acc, candidate, MatchResult(probe, answer))

\* lines 374-401: one iteration of the loop, given the record store's answer
RankStep(acc, probe, candidate, answer) ==
  IF answer = "raise" THEN acc
  ELSE IF answer \in {"norow", "null"} THEN acc
  ELSE UpdateBest(acc, candidate, MatchResult(probe, answer))

\* the response of lines 406-438 with the reason of line 341 when nothing matched
FinalResponseWrongReason(best) ==
  IF best.set
  THEN [match |-> TRUE, reason |-> "none", user |-> best.user,
        opencv_details |-> best.match_details, detail |-> "none"]
  ELSE [NoResponse EXCEPT !.reason = "no_candidates_in_bucket"]

\* an ending that answers a pass without accepted candidate with an error
FinalResponseRaises(best) ==
  IF best.set
  THEN [match |-> TRUE, reason |-> "none", user |-> best.user,
        opencv_details |-> best.match_details, detail |-> "none"]
  ELSE HTTP500("no candidate could be matched")

\* lines 406-438: the value returned after the loop
FinalResponse(best) ==
  IF best.set
  THEN [match |-> TRUE, reason |-> "none", user |-> best.user,
        opencv_details |-> best.match_details, detail |-> "none"]
  ELSE [NoResponse EXCEPT !.reason = "no_opencv_matches"]

\* lines 313-318: search_hash = image_hash(req.image); an exception leaves by
\* the handler at 440-442 as HTTP 500
SearchHash ==
  /\ pc = "search"
  /\ IF image_hash(image).ok
     THEN pc' = "hashed" /\ UNCHANGED response
     ELSE pc' = "raised" /\ response' = HTTP500("image_hash")
  /\ UNCHANGED <<image, search_bucket, candidates, search_descriptors, idx, fetched,
                 best_match, best_score, computed>>
  /\ UNCHANGED <<regvars, callvars>>

\* lines 320-323
GetHashBucket ==
  /\ pc = "hashed"
  /\ \E ans \in HashBucketAnswers :
       IF ans.raised
       THEN /\ pc' = "raised"
            /\ response' = HTTP500("get_hash_bucket")
            /\ UNCHANGED search_bucket
       ELSE IF ans.data = NoData
       THEN /\ pc' = "raised"
            /\ response' = HTTP500("get_hash_bucket returned no data")
            /\ UNCHANGED search_bucket
       ELSE /\ pc' = "bucketed"
            /\ search_bucket' = ans.data
            /\ UNCHANGED response
  /\ UNCHANGED <<image, candidates, search_descriptors, idx, fetched,
                 best_match, best_score, computed>>
  /\ UNCHANGED <<regvars, callvars>>

\* lines 330-344
FindBestMatch ==
  /\ pc = "bucketed"
  /\ \E ans \in FindAnswers :
       IF ans.raised
       THEN /\ pc' = "raised"
            /\ response' = HTTP500("find_best_match")
            /\ UNCHANGED candidates
       ELSE IF ans.none \/ ans.n = 0
       THEN /\ pc' = "returned"
            /\ response' = [NoResponse EXCEPT !.reason = "no_candidates_in_bucket"]
            /\ UNCHANGED candidates
       ELSE /\ pc' = "candidates"
            /\ candidates' = CandidateList(ans.n)
            /\ UNCHANGED response
  /\ UNCHANGED <<image, search_bucket, search_descriptors, idx, fetched,
                 best_match, best_score, computed>>
  /\ UNCHANGED <<regvars, callvars>>

\* lines 349-367
ExtractSearchFeatures ==
  /\ pc = "candidates"
  /\ IF extract_features(image).features = PyNone
     THEN /\ pc' = "returned"
          /\ response' = [NoResponse EXCEPT !.reason = "no_features_in_search_image"]
          /\ UNCHANGED search_descriptors
     ELSE IF ~SearchDecoded(image)
     THEN /\ pc' = "raised"
          /\ response' = HTTP500("Cannot deserialize search features")
          /\ UNCHANGED search_descriptors
     ELSE /\ pc' = "ranking"
          /\ search_descriptors' = image
          /\ UNCHANGED response
  /\ best_match' = NoBest
  /\ best_score' = 0
  /\ UNCHANGED <<image, search_bucket, candidates, idx, fetched, computed>>
  /\ UNCHANGED <<regvars, callvars>>

\* lines 369-401: the loop body for the next candidate
RankCandidate ==
  /\ pc = "ranking"
  /\ idx < Len(candidates)
  /\ \E answer \in FetchAnswers :
       LET acc == RankStep([best_score |-> best_score, best_match |-> best_match],
                           search_descriptors, candidates[idx + 1], answer)
       IN /\ best_score' = acc.best_score
          /\ best_match' = acc.best_match
          /\ fetched' = Append(fetched, answer)
  /\ idx' = idx + 1
  /\ UNCHANGED <<pc, image, search_bucket, candidates, search_descriptors, response, computed>>
  /\ UNCHANGED <<regvars, callvars>>

\* lines 406-438
ReturnResult ==
  /\ pc = "ranking"
  /\ idx = Len(candidates)
  /\ pc' = "returned"
  /\ response' = FinalResponse(best_match)
  /\ UNCHANGED <<image, search_bucket, candidates, search_descriptors, idx, fetched,
                 best_match, best_score, computed>>
  /\ UNCHANGED <<regvars, callvars>>

\* lines 366-401 as a whole: the loop over the candidates from the k-th on, the
\* record store answering answers[k] for the k-th
RECURSIVE RankFrom(_, _, _, _, _)
RankFrom(acc, probe, cands, answers, k) ==
  IF k > Len(cands) THEN acc
  ELSE RankFrom(RankStep(acc, probe, cands[k], answers[k]), probe, cands, answers, k + 1)

\* lines 366-438 for a candidate list and the record store's answers
RankList(probe, cands, answers) ==
  FinalResponse(RankFrom([best_score |-> 0, best_match |-> NoBest],
                         probe, cands, answers, 1).best_match)

SearchNext ==
  \/ SearchHash
  \/ GetHashBucket
  \/ FindBestMatch
  \/ ExtractSearchFeatures
  \/ RankCandidate
  \/ ReturnResult

(***************************************************************************)
(* register_user (register.py 139-311).  The request fields that are only  *)
(* copied into the row (names, address) are left out.                      *)
(***************************************************************************)
\* req.face_image / req.thumb_image: None, or one of the image strings
RegImageSeq == <<"None", "", "garbage", "gray", "imgA", "imgB">>

RegImages == Range(RegImageSeq)

RegImageIndex(img) == CHOOSE k \in DOMAIN RegImageSeq : RegImageSeq[k] = img

RECURSIVE RegisterTable(_)
\* extract_features (register.py) of the images from the k-th on
RegisterTable(k) ==
  IF k > Len(RegImageSeq) THEN <<>>
  ELSE <<register_extract_features(RegImageSeq[k])>> \o RegisterTable(k + 1)

\* `if req.face_image:` -- None and the empty string are false
Present(img) == img # "None" /\ img # ""

\* lines 179-192: the hash of one modality; [ok |-> FALSE] when image_hash raises
RegisterHash(img) ==
  IF Present(img) THEN image_hash(img) ELSE [ok |-> TRUE, hash |-> PyNone]

\* the rpc was not called
NotCalled == [raised |-> FALSE, data |-> NoData, called |-> FALSE]

\* answers of supabase.rpc("get_hash_bucket") to register_user
RegBucketAnswers == {[raised |-> a.raised, data |-> a.data, called |-> TRUE] : a \in HashBucketAnswers}

\* the bucket of a modality whose failed rpc is taken for bucket 0
RegisterBucketZeroOnError(hash, ans) ==
  IF hash = PyNone THEN NoData
  ELSE IF ans.raised THEN 0
  ELSE ans.data

\* lines 197-214: the bucket of one modality, None when the hash is None or the
\* rpc raised
RegisterBucket(hash, ans) ==
  IF hash = PyNone THEN NoData
  ELSE IF ans.raised THEN NoData
  ELSE ans.data

\* lines 219-236: the envelope of one modality, None when extract_features
\* returned (None, 0)
RegisterFeatures(img) ==
  IF Present(img) THEN computed[RegImageIndex(img)].features ELSE PyNone

NoUserData == [prepared |-> FALSE]

NoRegResponse == [success |-> FALSE, detail |-> "none"]

\* lines 148-174: the auth row is found or created; a failing query leaves by
\* the handler at 292-311
ResolveAuth ==
  /\ pc = "register"
  /\ \E ok \in BOOLEAN :
       IF ok THEN pc' = "authed" /\ UNCHANGED reg_response
       ELSE /\ pc' = "reg_raised"
            /\ reg_response' = [NoRegResponse EXCEPT !.detail = "Registration failed: auth"]
  /\ UNCHANGED <<face_image, thumb_image, face_hash, thumb_hash, bucket_res, face_bucket,
                 thumb_bucket, face_features_str, thumb_features_str, user_data>>
  /\ UNCHANGED <<computed, searchvars, callvars>>

\* lines 176-192
RegisterHashes ==
  /\ pc = "authed"
  /\ LET f == RegisterHash(face_image)
         t == RegisterHash(thumb_image)
     IN IF f.ok /\ t.ok
        THEN /\ pc' = "reg_hashed"
             /\ face_hash' = f.hash
             /\ thumb_hash' = t.hash
             /\ UNCHANGED reg_response
        ELSE /\ pc' = "reg_raised"
             /\ reg_response' = [NoRegResponse EXCEPT !.detail = "Registration failed: image_hash"]
             /\ UNCHANGED <<face_hash, thumb_hash>>
  /\ UNCHANGED <<face_image, thumb_image, bucket_res, face_bucket, thumb_bucket,
                 face_features_str, thumb_features_str, user_data>>
  /\ UNCHANGED <<computed, searchvars, callvars>>

\* lines 194-214
RegisterBuckets ==
  /\ pc = "reg_hashed"
  /\ \E fa \in (IF face_hash # PyNone THEN RegBucketAnswers ELSE {NotCalled}),
        ta \in (IF thumb_hash # PyNone THEN RegBucketAnswers ELSE {NotCalled}) :
       /\ bucket_res' = [face |-> fa, thumb |-> ta]
       /\ face_bucket' = RegisterBucket(face_hash, fa)
       /\ thumb_bucket' = RegisterBucket(thumb_hash, ta)
  /\ pc' = "reg_bucketed"
  /\ UNCHANGED <<face_image, thumb_image, face_hash, thumb_hash,
                 face_features_str, thumb_features_str, user_data, reg_response>>
  /\ UNCHANGED <<computed, searchvars, callvars>>

\* lines 216-236
RegisterExtract ==
  /\ pc = "reg_bucketed"
  /\ face_features_str' = RegisterFeatures(face_image)
  /\ thumb_features_str' = RegisterFeatures(thumb_image)
  /\ pc' = "reg_extracted"
  /\ UNCHANGED <<face_image, thumb_image, face_hash, thumb_hash, bucket_res, face_bucket,
                 thumb_bucket, user_data, reg_response>>
  /\ UNCHANGED <<computed, searchvars, callvars>>

\* lines 241-255: the row
UserData ==
  [prepared |-> TRUE,
   face_image |-> face_image, thumb_image |-> thumb_image,
   face_hash |-> face_hash, thumb_hash |-> thumb_hash,
   face_hash_bucket |-> face_bucket, thumb_hash_bucket |-> thumb_bucket,
   face_features_orb |-> face_features_str, thumb_features_orb |-> thumb_features_str]

\* lines 279-290: the answer to the caller
RegSuccess ==
  [success |-> TRUE, detail |-> "none",
   biometric_info |->
     [face_hash_generated |-> face_hash # PyNone,
      thumb_hash_generated |-> thumb_hash # PyNone,
      face_features_extracted |-> face_features_str # PyNone,
      thumb_features_extracted |-> thumb_features_str # PyNone,
      face_bucket |-> face_bucket, thumb_bucket |-> thumb_bucket]]

\* lines 238-311: the row is prepared and inserted; the insert answers with
\* the new row, with no data, or raises
RegisterInsert ==
  /\ pc = "reg_extracted"
  /\ user_data' = UserData
  /\ \E answer \in {"row", "nodata", "raise"} :
       IF answer = "row"
       THEN pc' = "registered" /\ reg_response' = RegSuccess
       ELSE /\ pc' = "reg_raised"
            /\ reg_response' = [NoRegResponse EXCEPT !.detail = "Registration failed: insert"]
  /\ UNCHANGED <<face_image, thumb_image, face_hash, thumb_hash, bucket_res, face_bucket,
                 thumb_bucket, face_features_str, thumb_features_str>>
  /\ UNCHANGED <<computed, searchvars, callvars>>

RegisterNext ==
  \/ ResolveAuth
  \/ RegisterHashes
  \/ RegisterBuckets
  \/ RegisterExtract
  \/ RegisterInsert

(***************************************************************************)
(* Calls of match_features (users.py 213-299) on their own: any probe, any *)
(* stored column, any min_matches.                                         *)
(***************************************************************************)
\* probe descriptor sets:
\*   p0: no rows (an empty N x 32 array)
\*   p1: one row
\*   p2: two rows
\*   p3: three rows within 20 bits of each other
MatchProbeNames == {"p0", "p1", "p2", "p3"}

MatchProbe(name) ==
  CASE name = "p0" -> Descriptors(<<>>)
    [] name = "p1" -> Descriptors(<<HRow(1)>>)
    [] name = "p2" -> Descriptors(<<HRow(1), HRow(2)>>)
    [] name = "p3" -> Descriptors(<<FlipBits(HRow(1), 20), FlipBits(HRow(1), 10), HRow(1)>>)

\* stored columns given to match_features
MatchStoredNames == {"one", "two", "mixed", "far", "empty", "int32", "cut", "garbage", "None"}

\* values of min_matches: negative, zero, small, and the default
MinValues == {-1, 0, 1, 2, min_matches}

MatchCalls ==
  {[fn |-> "match_features", probe |-> p, stored |-> st, min |-> m] :
     p \in MatchProbeNames, st \in MatchStoredNames, m \in MinValues}

\* result = match_features(search_descriptors, stored_features_str, min_matches)
CallMatch ==
  /\ pc = "call"
  /\ call.fn = "match_features"
  /\ result' = match_features(MatchProbe(call.probe), StoredText(call.stored), call.min)
  /\ pc' = "done"
  /\ UNCHANGED <<call, computed, searchvars, regvars>>

(***************************************************************************)
(* The codec on its own: the envelope extract_features writes for a        *)
(* descriptor set (users.py 109-121) and what match_features and           *)
(* search_user make of it (users.py 133-211, 221-244, 356-361).            *)
(***************************************************************************)
\* descriptor rows: a code row, a row of 32 different bytes, a row of zeros and
\* a row with three bits set
RowPool ==
  {HRow(1), Tuple([j \in 1..DescWidth |-> (j * 37) % 256]),
   Tuple([j \in 1..DescWidth |-> 0]), FlipBits(Tuple([j \in 1..DescWidth |-> 0]), 3)}

\* the descriptor sets ORB can hand to the codec: one to MaxRows rows
DescriptorSets == UNION {{Descriptors(rows) : rows \in [1..n -> RowPool]} : n \in 1..MaxRows}

CodecCalls == {[fn |-> "codec", x |-> x] : x \in DescriptorSets}

\* the envelope of call.x, how safe_decode_features classifies it and the array
\* it is deserialized to
CallCodec ==
  /\ pc = "call"
  /\ call.fn = "codec"
  /\ result' = LET envelope == encode(call.x)
                   decoded == safe_decode_features(envelope)
               IN [envelope |-> envelope, branch |-> decoded.branch, kind |-> decoded.kind,
                   descriptors |-> IF decoded.ok THEN deserialize(decoded)
                                   ELSE [ok |-> FALSE, arr |-> NoArray]]
  /\ pc' = "done"
  /\ UNCHANGED <<call, computed, searchvars, regvars>>

(***************************************************************************)
(* Stored columns as the record store hands them back: the forms a column  *)
(* written earlier can have when safe_decode_features reads it             *)
(* (users.py 133-211), and strings that are no column at all.              *)
(***************************************************************************)
HexDigit(v) == IF v < 10 THEN 48 + v ELSE 87 + v

\* the lower-case hex text of a byte string, as a bytea column is printed
hex(bs) ==
  Tuple([j \in 1..(2 * Len(bs)) |->
           IF j % 2 = 1 THEN HexDigit(bs[(j + 1) \div 2] \div 16)
           ELSE HexDigit(bs[j \div 2] % 16)])

\* the text with its trailing '=' removed (a column written without padding)
Unpadded(s) == SubSeq(s, 1, Len(s) - B64Pads(s))

\* the forms of an envelope:
\*   base64            what extract_features writes
\*   base64_unpadded   the same without its padding
\*   escape_hex        '\x' and the hex text of the JSON
\*   plain_hex         the hex text of the JSON
\*   pickle_base64, pickle_escape_hex, pickle_plain_hex
\*                     the pickled matrix in the three transports
EnvelopeForms ==
  {"base64", "base64_unpadded", "escape_hex", "plain_hex",
   "pickle_base64", "pickle_escape_hex", "pickle_plain_hex"}

EnvelopeForm(form, x) ==
  CASE form = "base64" -> encode(x)
    [] form = "base64_unpadded" -> Unpadded(encode(x))
    [] form = "escape_hex" -> <<92, 120>> \o hex(utf8_encode(json_dumps_descriptors(x)))
    [] form = "plain_hex" -> hex(utf8_encode(json_dumps_descriptors(x)))
    [] form = "pickle_base64" -> b64encode(pickle_dumps(x))
    [] form = "pickle_escape_hex" -> <<92, 120>> \o hex(pickle_dumps(x))
    [] form = "pickle_plain_hex" -> hex(pickle_dumps(x))

\* envelopes whose shape entry does not describe their data: one row too many,
\* one column too few, a flat shape
ShapeForms == {"shape_rows", "shape_width", "shape_flat"}

MisshapenEnvelope(form, x) ==
  CASE form = "shape_rows" -> encode([x EXCEPT !.shape = <<x.shape[1] + 1, x.shape[2]>>])
    [] form = "shape_width" -> encode([x EXCEPT !.shape = <<x.shape[1], x.shape[2] - 1>>])
    [] form = "shape_flat" -> encode([x EXCEPT !.shape = <<x.shape[1] * x.shape[2]>>])

\* strings that are no envelope, by name
RawNames ==
  {"abc", "deadbeef", "DEADBEEF", "e3", "e30", "e30=", " 7b7d ", "\\x7b7d", "\\xabc",
   "\\xzz", "\\x", "zzzzz", "garbage", " "}

RawText(name) ==
  CASE name = "abc" -> <<97, 98, 99>>
    [] name = "deadbeef" -> <<100, 101, 97, 100, 98, 101, 101, 102>>
    [] name = "DEADBEEF" -> <<68, 69, 65, 68, 66, 69, 69, 70>>
    [] name = "e3" -> <<101, 51>>
    [] name = "e30" -> <<101, 51, 48>>
    [] name = "e30=" -> <<101, 51, 48, 61>>
    [] name = " 7b7d " -> <<32, 55, 98, 55, 100, 10>>
    [] name = "\\x7b7d" -> <<92, 120, 55, 98, 55, 100>>
    [] name = "\\xabc" -> <<92, 120, 97, 98, 99>>
    [] name = "\\xzz" -> <<92, 120, 122, 122>>
    [] name = "\\x" -> <<92, 120>>
    [] name = "zzzzz" -> <<122, 122, 122, 122, 122>>
    [] name = "garbage" -> TxtGarbage
    [] name = " " -> <<32>>

DecodeCalls ==
  {[fn |-> "decode", form |-> f, x |-> x, text |-> EnvelopeForm(f, x)] :
     f \in EnvelopeForms, x \in DescriptorSets}
  \cup {[fn |-> "decode", form |-> f, x |-> x, text |-> MisshapenEnvelope(f, x)] :
          f \in ShapeForms, x \in DescriptorSets}
  \cup {[fn |-> "decode", form |-> "escape_hex_of_base64", x |-> x,
          text |-> <<92, 120>> \o hex(encode(x))] : x \in DescriptorSets}
  \cup {[fn |-> "decode", form |-> n, x |-> NoArray, text |-> RawText(n)] : n \in RawNames}

\* decoded_data, data_type = safe_decode_features(call.text) and the array the
\* caller deserializes (users.py 222-244); raised: an exception left the call
CallDecode ==
  /\ pc = "call"
  /\ call.fn = "decode"
  /\ result' = Bind(safe_decode_features(call.text),
                    LAMBDA decoded :
                      [raised |-> ~decoded.ok, branch |-> decoded.branch,
                       kind |-> decoded.kind, data |-> decoded.data,
                       descriptors |-> IF decoded.ok THEN deserialize(decoded)
                                       ELSE [ok |-> FALSE, arr |-> NoArray]])
  /\ pc' = "done"
  /\ UNCHANGED <<call, computed, searchvars, regvars>>

CodecNext == CallCodec \/ CallDecode

(***************************************************************************)
(* image_hash and extract_features on their own (hash_utils.py 5-21,       *)
(* users.py 81-131, register.py 87-137).                                   *)
(***************************************************************************)
\* 8-bit samples: the ends of the range and neighbours around the middle
SampleValues == {0, 1, 127, 128, 254, 255}

\* positions of a single sample that differs from the others
OddPositions == {1, 8, 28, 57, 64}

\* 8x8 grids in row-major order, as cv2.resize(...).flatten() gives them: solid,
\* one sample different, a checkerboard, two halves
Grids ==
  {[i \in 1..64 |-> a] : a \in SampleValues}
  \cup {[i \in 1..64 |-> IF i = k THEN b ELSE a] :
          a \in SampleValues, b \in SampleValues, k \in OddPositions}
  \cup {[i \in 1..64 |-> IF ((i - 1) \div 8 + (i - 1)) % 2 = 0 THEN a ELSE b] :
          a \in SampleValues, b \in SampleValues}
  \cup {[i \in 1..64 |-> IF i <= 32 THEN a ELSE b] : a \in SampleValues, b \in SampleValues}

\* a call of image_hash: whether cv2.imdecode reads the payload, and the grid
\* the image is resized to
HashCalls ==
  {[fn |-> "image_hash", decodable |-> d, resized |-> g] : d \in BOOLEAN, g \in Grids}

\* result = image_hash(base64_str)
CallHash ==
  /\ pc = "call"
  /\ call.fn = "image_hash"
  /\ result' = ImageHashOf(call.decodable, call.resized)
  /\ pc' = "done"
  /\ UNCHANGED <<call, computed, searchvars, regvars>>

\* a call of extract_features of either router with a request image
ExtractCalls ==
  {[fn |-> "extract_features", router |-> r, image |-> img] :
     r \in {"users", "register"}, img \in RegImages}

\* result = extract_features(base64_str)
CallExtract ==
  /\ pc = "call"
  /\ call.fn = "extract_features"
  /\ result' = IF call.router = "users" THEN extract_features(call.image)
               ELSE register_extract_features(call.image)
  /\ pc' = "done"
  /\ UNCHANGED <<call, computed, searchvars, regvars>>

ImageNext == CallHash \/ CallExtract

(***************************************************************************)
(* Initial states and specifications.  Each specification runs one handler *)
(* and leaves the variables of the others at rest.                         *)
(***************************************************************************)
SearchIdle ==
  /\ image = ""
  /\ search_bucket = NoData
  /\ candidates = <<>>
  /\ search_descriptors = "none"
  /\ idx = 0
  /\ fetched = <<>>
  /\ best_match = NoBest
  /\ best_score = 0
  /\ response = NoResponse

RegisterIdle ==
  /\ face_image = "None"
  /\ thumb_image = "None"
  /\ face_hash = PyNone
  /\ thumb_hash = PyNone
  /\ bucket_res = [face |-> NotCalled, thumb |-> NotCalled]
  /\ face_bucket = NoData
  /\ thumb_bucket = NoData
  /\ face_features_str = PyNone
  /\ thumb_features_str = PyNone
  /\ user_data = NoUserData
  /\ reg_response = NoRegResponse

CallIdle ==
  /\ call = <<>>
  /\ result = <<>>

\* a POST /search with any of the images
Init ==
  /\ computed = SearchTable(1)
  /\ pc = "search"
  /\ image \in ImageNames
  /\ search_bucket = NoData
  /\ candidates = <<>>
  /\ search_descriptors = "none"
  /\ idx = 0
  /\ fetched = <<>>
  /\ best_match = NoBest
  /\ best_score = 0
  /\ response = NoResponse
  /\ RegisterIdle
  /\ CallIdle

Next == SearchNext

Spec == Init /\ [][Next]_vars

\* the request is served to its end: the interpreter goes on with the loop and
\* every select of a candidate's column comes back (with a value, an absence or
\* an exception), so a step that can be taken is taken
SpecLive == Init /\ [][Next]_vars /\ WF_vars(RankCandidate) /\ WF_vars(ReturnResult)

\* a POST /register with any two of the images
InitRegister ==
  /\ computed = RegisterTable(1)
  /\ pc = "register"
  /\ face_image \in RegImages
  /\ thumb_image \in RegImages
  /\ face_hash = PyNone
  /\ thumb_hash = PyNone
  /\ bucket_res = [face |-> NotCalled, thumb |-> NotCalled]
  /\ face_bucket = NoData
  /\ thumb_bucket = NoData
  /\ face_features_str = PyNone
  /\ thumb_features_str = PyNone
  /\ user_data = NoUserData
  /\ reg_response = NoRegResponse
  /\ SearchIdle
  /\ CallIdle

SpecRegister == InitRegister /\ [][RegisterNext]_vars

\* a call of match_features
InitMatch ==
  /\ computed = <<>>
  /\ pc = "call"
  /\ call \in MatchCalls
  /\ result = <<>>
  /\ SearchIdle
  /\ RegisterIdle

SpecMatch == InitMatch /\ [][CallMatch]_vars

\* a descriptor set goes through the codec
InitCodec ==
  /\ computed = <<>>
  /\ pc = "call"
  /\ call \in CodecCalls \cup DecodeCalls
  /\ result = <<>>
  /\ SearchIdle
  /\ RegisterIdle

SpecCodec == InitCodec /\ [][CodecNext]_vars

\* an image goes through image_hash or extract_features
InitImage ==
  /\ computed = <<>>
  /\ pc = "call"
  /\ call \in HashCalls \cup ExtractCalls
  /\ result = <<>>
  /\ SearchIdle
  /\ RegisterIdle

SpecImage == InitImage /\ [][ImageNext]_vars


(***************************************************************************)
(* Properties of the ranking pass.                                         *)
(***************************************************************************)
\* the handler returned after the loop over the candidates
Ranked == pc = "returned" /\ search_descriptors # "none"

\* answers of the record store that carry a stored column
Scored(k) == fetched[k] \notin {"raise", "norow", "null"}

\* the MatchScore of the k-th visited candidate
ScoreAt(k) == MatchResult(search_descriptors, fetched[k])

\* the visited candidates whose score has is_match = true
Accepted == {k \in 1..Len(fetched) : Scored(k) /\ ScoreAt(k).is_match}

\* C1: the ranking pass returns the accepted candidate with the greatest
\* good_matches, the earliest in the supplied order when several share it, and
\* the no-match outcome when no candidate is accepted.
C1_RankingSelectsGreatest ==
  Ranked =>
    IF Accepted = {}
    THEN ~response.match /\ response.reason = "no_opencv_matches"
    ELSE \E w \in Accepted :
           /\ \A j \in Accepted :
                \/ ScoreAt(w).good_matches > ScoreAt(j).good_matches
                \/ (ScoreAt(w).good_matches = ScoreAt(j).good_matches /\ w <= j)
           /\ response.match
           /\ response.user = candidates[w]
           /\ response.opencv_details = ScoreAt(w)

\* a ranking of three accepted candidates (20, 22 and 22 good matches) returned
\* the second: the earlier of the two with the greatest count
C1_Witness ==
  /\ Ranked
  /\ fetched = <<"thresh", "near", "full">>
  /\ response.match
  /\ response.user = candidates[2]
  /\ response.opencv_details.good_matches = ScoreAt(3).good_matches

\* answers for which fetching, decoding or matching the stored descriptors fails:
\* the select raises, the column cannot be matched (int32 elements), cannot be
\* deserialized (cut) or cannot be decoded (garbage)
Failing == {"raise", "int32", "cut", "garbage"}

\* answers that report absence
Absent == {"norow", "null"}

RECURSIVE Without(_, _, _)
\* the entries of seq whose answer is not in drop
Without(seq, answers, drop) ==
  IF seq = <<>> THEN <<>>
  ELSE (IF Head(answers) \in drop THEN <<>> ELSE <<Head(seq)>>)
         \o Without(Tail(seq), Tail(answers), drop)

\* the loop visits the next candidate and the record store's answer is in kinds
Visits(kinds) == pc = "ranking" /\ idx' = idx + 1 /\ fetched'[idx'] \in kinds

\* the visit leaves the loop running and the accumulator as it was
Skipped == pc' = "ranking" /\ best_score' = best_score /\ best_match' = best_match

\* C2: a candidate whose fetch, decode or match fails is skipped, the loop goes
\* on to every later candidate, and the result is that of ranking the list
\* without the failing candidates.
C2_FailureIsolated ==
  /\ [](Ranked =>
          /\ Len(fetched) = Len(candidates)
          /\ response = RankList(search_descriptors,
                                 Without(candidates, fetched, Failing),
                                 Without(fetched, fetched, Failing)))
  /\ [][Visits(Failing) => Skipped]_vars

\* a ranking whose first candidate could not be deserialized and whose second
\* could not be fetched returned the third
C2_Witness ==
  /\ Ranked
  /\ fetched = <<"cut", "raise", "full">>
  /\ response.match
  /\ response.user = candidates[3]

\* C3: a candidate whose fetch reports absence is skipped without changing
\* best_score or best_match, and the result is that of ranking the other
\* candidates alone.
C3_AbsenceSkipped ==
  /\ [](Ranked =>
          response = RankList(search_descriptors,
                              Without(candidates, fetched, Absent),
                              Without(fetched, fetched, Absent)))
  /\ [][Visits(Absent) => Skipped]_vars

\* a ranking with an absent row and an empty column around an accepted candidate
\* returned that candidate
C3_Witness ==
  /\ Ranked
  /\ fetched = <<"thresh", "norow", "null">>
  /\ response.match
  /\ response.user = candidates[1]

\* C4: a search that returns gives match = true with the selected candidate and
\* its score, or match = false with no_candidates_in_bucket (empty candidate
\* list), no_features_in_search_image (candidates, but no probe descriptors) or
\* no_opencv_matches (candidates and descriptors, but no accepted candidate);
\* match = true exactly when some candidate's score has is_match = true.
C4_FourOutcomes ==
  pc = "returned" =>
    /\ response.match <=> (Ranked /\ Accepted # {})
    /\ IF response.match
       THEN /\ response.reason = "none"
            /\ \E k \in Accepted :
                 response.user = candidates[k] /\ response.opencv_details = ScoreAt(k)
       ELSE \/ response.reason = "no_candidates_in_bucket" /\ candidates = <<>>
            \/ /\ response.reason = "no_features_in_search_image"
               /\ candidates # <<>>
               /\ NoSearchFeatures(image)
            \/ /\ response.reason = "no_opencv_matches"
               /\ candidates # <<>>
               /\ ~NoSearchFeatures(image)
               /\ Accepted = {}

\* a search with candidates returned no_features_in_search_image for the
\* solid gray image
C4_Witness ==
  /\ pc = "returned"
  /\ image = "gray"
  /\ candidates # <<>>
  /\ response.reason = "no_features_in_search_image"

\* the ranking pass is running or has returned
InPass == pc = "ranking" \/ Ranked

\* best_match is None and best_score 0, or best_match is a candidate already
\* visited whose score was accepted and whose good_matches is best_score
AccumulatorHolds ==
  /\ idx = Len(fetched)
  /\ idx <= Len(candidates)
  /\ IF best_match.set
     THEN \E k \in 1..idx :
            /\ Scored(k)
            /\ best_match.user = candidates[k]
            /\ best_match.match_details = ScoreAt(k)
            /\ ScoreAt(k).is_match
            /\ ScoreAt(k).good_matches = best_score
     ELSE best_match = NoBest /\ best_score = 0

\* a step of the pass: the next candidate of the list as it was supplied is
\* visited, or, all being visited, the pass returns
LinearStep ==
  /\ candidates' = candidates
  /\ search_descriptors' = search_descriptors
  /\ IF pc' = "ranking"
     THEN /\ idx' = idx + 1
          /\ Len(fetched') = idx'
          /\ SubSeq(fetched', 1, idx) = fetched
     ELSE /\ pc' = "returned"
          /\ idx = Len(candidates)
          /\ idx' = idx
          /\ fetched' = fetched

\* best_score does not decrease and best_match changes only with an increase
MonotoneStep ==
  /\ best_score' >= best_score
  /\ best_match' # best_match => best_score' > best_score

\* C17: across one ranking pass the candidates are visited once each in the
\* supplied order, best_score never decreases, best_match changes only in a
\* step where best_score strictly increases, and best_match is always either
\* empty (best_score at its initial value) or a visited candidate whose score
\* had is_match = true and good_matches = best_score.
C17_MonotoneLinearPass ==
  /\ [](InPass => AccumulatorHolds)
  /\ [][pc = "ranking" => (LinearStep /\ MonotoneStep)]_vars

\* a pass that took the first candidate (20 good matches), replaced it by the
\* second (22) and kept it over the third (22 again)
C17_Witness ==
  /\ pc = "ranking"
  /\ idx = 3
  /\ fetched = <<"thresh", "full", "near">>
  /\ best_score = 22
  /\ best_match.user = candidates[2]

\* the pass has ended with the best accepted match or with the explicit
\* no-accepted-match result
PassEnded ==
  /\ pc = "returned"
  /\ response.detail = "none"
  /\ idx = Len(candidates)
  /\ \/ /\ response.match
        /\ best_match.set
        /\ response.user = best_match.user
        /\ response.opencv_details = best_match.match_details
     \/ /\ ~response.match
        /\ ~best_match.set
        /\ response.reason = "no_opencv_matches"

\* C19: for every candidate list, the record store answering every fetch with
\* a value, an absence or a failure, the ranking pass terminates, with the best
\* accepted match or with the no-accepted-match result; no step of the pass
\* ends the request with an exception.
C19_PassTerminates ==
  /\ (pc = "ranking") ~> PassEnded
  /\ [][pc = "ranking" => pc' \in {"ranking", "returned"}]_vars

\* a pass whose three fetches ended with an exception, a column that cannot be
\* decoded and an absence returned the no-accepted-match result
C19_Witness ==
  /\ PassEnded
  /\ fetched = <<"raise", "garbage", "norow">>
  /\ response.reason = "no_opencv_matches"

\* C5: no failure or empty result of get_hash_bucket or find_best_match leaves
\* search_user as a raised error.
C5_BucketFailureNeverRaised ==
  pc = "raised" =>
    response.detail \notin {"get_hash_bucket", "get_hash_bucket returned no data",
                            "find_best_match"}

(***************************************************************************)
(* Properties of enrollment.                                               *)
(***************************************************************************)
\* what the row holds for a modality, with the request image and the answer of
\* the bucket service for it
Modality(m) ==
  IF m = "face"
  THEN [image |-> face_image, answer |-> bucket_res.face,
        hash |-> user_data.face_hash, bucket |-> user_data.face_hash_bucket,
        features |-> user_data.face_features_orb]
  ELSE [image |-> thumb_image, answer |-> bucket_res.thumb,
        hash |-> user_data.thumb_hash, bucket |-> user_data.thumb_hash_bucket,
        features |-> user_data.thumb_features_orb]

\* ORB finds keypoints in the image
HasKeypoints(img) == OrbDescriptors(img) # NoArray

\* the outputs of a modality are those its own image and its own bucket answer
\* determine
ModalityAlone(x) ==
  IF ~Present(x.image)
  THEN x.hash = PyNone /\ x.bucket = NoData /\ x.features = PyNone
  ELSE /\ x.hash = image_hash(x.image).hash
       /\ Len(x.hash) = 64
       /\ x.answer.called
       /\ x.bucket = (IF x.answer.raised THEN NoData ELSE x.answer.data)
       /\ IF HasKeypoints(x.image)
          THEN x.features = computed[RegImageIndex(x.image)].features /\ x.features # PyNone
          ELSE x.features = PyNone

\* C6: in enrollment each modality is processed on its own: an absent image
\* gives absent fingerprint, bucket id and envelope; a present (readable) image
\* gives a fingerprint; an error of the bucket service leaves only that
\* modality's bucket id absent and does not abort the enrollment; an image
\* without keypoints leaves only that modality's envelope absent.
C6_ModalitiesIndependent ==
  /\ [](user_data.prepared => ModalityAlone(Modality("face")) /\ ModalityAlone(Modality("thumb")))
  /\ [][pc = "reg_hashed" => pc' = "reg_bucketed"]_vars

\* an enrollment completed with the face bucket lost to a service error and the
\* thumb image without keypoints
C6_Witness ==
  /\ pc = "registered"
  /\ face_image = "imgA"
  /\ thumb_image = "gray"
  /\ bucket_res.face.raised
  /\ bucket_res.thumb.data = 7
  /\ user_data.face_hash_bucket = NoData
  /\ user_data.face_features_orb # PyNone
  /\ user_data.thumb_hash # PyNone
  /\ user_data.thumb_hash_bucket = 7
  /\ user_data.thumb_features_orb = PyNone

(***************************************************************************)
(* Properties of match_features.                                           *)
(***************************************************************************)
\* a call of match_features returned
Matched == pc = "done" /\ call.fn = "match_features"

\* the descriptor array the stored column of the call decodes to
StoredOfCall == decode(StoredText(call.stored))

\* C7: the score match_features returns has is_match equal to
\* good_matches >= min_matches, for every min_matches (zero and negative
\* included) and on every return path.
C7_IsMatchIffThreshold ==
  Matched => (result.is_match <=> (result.good_matches >= call.min))

\* no two pairs share a probe row or a stored row
OneToOne(matches) ==
  \A i, j \in DOMAIN matches :
    i # j => /\ matches[i].queryIdx # matches[j].queryIdx
             /\ matches[i].trainIdx # matches[j].trainIdx

\* C8: match_ratio is good_matches / min(|probe|, |stored|) and lies in [0, 1]:
\* the cross-checked pairs use each probe row and each stored row at most once,
\* so good_matches is at most min(|probe|, |stored|).
C8_RatioWithinUnit ==
  Matched =>
    LET probe == MatchProbe(call.probe)
        stored == StoredOfCall
        least == Min2(NRows(probe), IF stored.ok THEN NRows(stored.arr) ELSE 0)
    IN /\ result.match_ratio.den > 0
       /\ 0 <= result.match_ratio.num
       /\ result.match_ratio.num <= result.match_ratio.den
       /\ result.good_matches <= least
       /\ result.good_matches > 0 =>
            result.match_ratio = [num |-> result.good_matches, den |-> least]
       /\ (stored.ok /\ stored.arr.dtype = "uint8" /\ NRows(probe) > 0 /\ NRows(stored.arr) > 0)
            => OneToOne(BFMatch(probe, stored.arr).matches)

\* three probe rows, all nearest to the single stored row, gave one good match
\* and a ratio of 1 / 1
C8_Witness ==
  /\ Matched
  /\ call.probe = "p3"
  /\ call.stored = "one"
  /\ result.good_matches = 1
  /\ result.match_ratio = [num |-> 1, den |-> 1]

\* C9: with an empty probe set or an empty stored set, and on any failure
\* inside match_features (a column that cannot be decoded or deserialized, a
\* pairing error), the result is good_matches = 0, avg_distance = +infinity,
\* match_ratio = 0 and is_match = false.
C9_EmptyOrFailureIsZero ==
  (/\ Matched
   /\ \/ NRows(MatchProbe(call.probe)) = 0
      \/ ~StoredOfCall.ok
      \/ NRows(StoredOfCall.arr) = 0
      \/ ~BFMatch(MatchProbe(call.probe), StoredOfCall.arr).ok)
    => /\ result.good_matches = 0
       /\ result.avg_distance = [num |-> 1, den |-> 0]
       /\ result.match_ratio = [num |-> 0, den |-> 1]
       /\ result.is_match = FALSE

\* a probe of two rows was matched against the envelope of an empty set
C9_Witness ==
  /\ Matched
  /\ call.probe = "p2"
  /\ call.stored = "empty"
  /\ StoredOfCall.ok
  /\ NRows(StoredOfCall.arr) = 0
  /\ result.good_matches = 0
  /\ ~result.is_match

\* the pairs bf.match finds for the call: [ok |-> FALSE] when the stored column
\* gives no array or the pairing raises
PairsOfCall ==
  Bind(StoredOfCall,
       LAMBDA stored :
         IF ~stored.ok \/ stored.arr.shape = <<>> THEN [ok |-> FALSE, matches |-> <<>>]
         ELSE BFMatch(AsType(MatchProbe(call.probe), stored.arr.dtype), stored.arr))

\* C13: for every completed pairing total_matches is the number of
\* cross-checked pairs, whatever their distance, and good_matches is at most
\* total_matches; also when no pair is below the cutoff.
C13_TotalCountsAllPairs ==
  (Matched /\ PairsOfCall.ok) =>
    /\ result.total_matches = Len(PairsOfCall.matches)
    /\ result.good_matches <= result.total_matches

(***************************************************************************)
(* Properties of the codec.                                                *)
(***************************************************************************)
\* a descriptor set went through encode and decode
Decoded == pc = "done" /\ call.fn = "codec"

\* C10: decode(encode(x)) = x for every descriptor set x: the envelope is
\* taken by the decoder for base64 of JSON text, never for escape-marker hex or
\* plain hex, and the array rebuilt has the shape, element type and values of x.
C10_RoundTrip ==
  Decoded =>
    /\ result.branch = "base64"
    /\ result.kind = "json"
    /\ result.descriptors.ok
    /\ result.descriptors.arr.shape = call.x.shape
    /\ result.descriptors.arr.dtype = call.x.dtype
    /\ result.descriptors.arr.data = call.x.data
    /\ result.descriptors.arr = call.x

\* a set of three different rows, with bytes of one, two and three digits, came
\* back from its envelope
C10_Witness ==
  /\ Decoded
  /\ call.x.shape = <<3, DescWidth>>
  /\ call.x.data[1] # call.x.data[2]
  /\ call.x.data[2] # call.x.data[3]
  /\ \E j \in 1..DescWidth : call.x.data[1][j] = 255
  /\ \E j \in 1..DescWidth : call.x.data[2][j] = 37
  /\ \E j \in 1..DescWidth : call.x.data[3][j] = 7
  /\ result.descriptors.arr = call.x

\* a stored column went through safe_decode_features and deserialization
DecodeDone == pc = "done" /\ call.fn = "decode"

ShapeEntry(txt) ==
  Bind(json_loads(txt),
       LAMBDA j :
         IF ~j.ok THEN [ok |-> FALSE, shape |-> <<>>]
         ELSE Bind(DictGet(j.val, TxtShape),
                   LAMBDA e :
                     IF e.ok /\ IsNumList(e.val)
                     THEN [ok |-> TRUE, shape |-> NumList(e.val)]
                     ELSE [ok |-> FALSE, shape |-> <<>>]))

\* C12: decode fails when the shape entry of the envelope does not agree with
\* its data; an array is returned only for an envelope whose shape entry is the
\* shape of the rows it carries.
C12_ShapeMismatchRejected ==
  (DecodeDone /\ result.kind = "json" /\ result.descriptors.ok) =>
    ShapeEntry(result.data) = [ok |-> TRUE, shape |-> result.descriptors.arr.shape]

(***************************************************************************)
(* Properties of image_hash and extract_features.                          *)
(***************************************************************************)
\* image_hash returned for an image cv2 could read
Hashed == pc = "done" /\ call.fn = "image_hash" /\ call.decodable

\* C14: for every image that decodes to a grayscale image the hash is a string
\* of exactly 64 characters, each '0' or '1'.
C14_HashIs64Bits ==
  Hashed =>
    /\ result.ok
    /\ Len(result.hash) = 64
    /\ \A i \in 1..64 : result.hash[i] \in {48, 49}

\* an image resized to a checkerboard of 0 and 255 gave 64 characters, both
\* '0' and '1' among them
C14_Witness ==
  /\ Hashed
  /\ call.resized[1] = 255
  /\ call.resized[2] = 0
  /\ call.resized[9] = 0
  /\ Len(result.hash) = 64
  /\ result.hash[1] = 49
  /\ result.hash[2] = 48

\* sample i is strictly greater than the mean of the samples: its differences
\* to all samples sum to more than zero
AboveMean(grid, i) == SumSeq([j \in DOMAIN grid |-> grid[i] - grid[j]]) > 0

\* C15: for every 8x8 grid the i-th character of the hash, in row-major order,
\* is '1' exactly when sample i is strictly greater than the mean of the 64
\* samples; a grid of equal samples gives 64 '0' characters.
C15_BitIffAboveMean ==
  Hashed =>
    /\ \A i \in 1..64 : (result.hash[i] = 49) <=> AboveMean(call.resized, i)
    /\ (\A i \in 1..64 : call.resized[i] = call.resized[1])
         => result.hash = [i \in 1..64 |-> 48]

\* the solid gray grid gave 64 zeros
C15_Witness ==
  /\ Hashed
  /\ call.resized = [i \in 1..64 |-> 128]
  /\ result.hash = [i \in 1..64 |-> 48]

\* extract_features returned
Extracted == pc = "done" /\ call.fn = "extract_features"

\* ORB gave descriptors for the image of the call
Produced == Decodable(call.image) /\ OrbDescriptors(call.image) # NoArray

\* C16: extract_features always returns: (None, 0) for an empty input, an
\* input that cannot be decoded and an image without keypoints, and an
\* envelope (of the descriptors, with their count) only when descriptors were
\* produced.
C16_ExtractNeverRaises ==
  Extracted =>
    /\ result.features = PyNone <=> ~Produced
    /\ result.features = PyNone => result.keypoints = 0
    /\ Produced =>
         /\ decode(result.features) = [ok |-> TRUE, arr |-> OrbDescriptors(call.image)]
         /\ result.keypoints = NRows(OrbDescriptors(call.image))

\* the search router's extractor returned (None, 0) for a payload cv2 cannot
\* read
C16_Witness ==
  /\ Extracted
  /\ call.router = "users"
  /\ call.image = "garbage"
  /\ result = NoFeatures

(***************************************************************************)
(* The dispatch of safe_decode_features.                                   *)
(***************************************************************************)
\* the bytes safe_decode_features returned, as text or as they are
ResultBytes == IF result.kind = "json" THEN utf8_encode(result.data) ELSE result.data

\* the call ended as the given decoding of the given branch does: with its
\* bytes (as text when they are UTF-8), or with its exception
EndedAs(decoding, branch) ==
  IF decoding.ok
  THEN /\ ~result.raised
       /\ result.branch = branch
       /\ ResultBytes = decoding.bytes
       /\ (result.kind = "json") <=> utf8_decode(decoding.bytes).ok
  ELSE result.raised

\* s with '=' appended up to a multiple of 4 characters
PaddedTo4(s) == s \o [i \in 1..((4 - (Len(s) % 4)) % 4) |-> 61]

\* C18: the trimmed string is dispatched in a fixed order: with the escape
\* marker in front its remainder is hex-decoded; otherwise, made of hex
\* characters only, it is hex-decoded; only otherwise it is base64-decoded, as
\* it is and, if that fails and its length is no multiple of 4, once more with
\* '=' appended.  A string an earlier branch took is not tried by a later one,
\* even when the earlier decoding fails.
C18_DispatchOrder ==
  DecodeDone =>
    LET s == Strip(call.text) IN
      IF StartsWithEscape(s) THEN EndedAs(fromhex(SubSeq(s, 3, Len(s))), "escape_hex")
      ELSE IF \A i \in DOMAIN s : s[i] \in HexAlphabet THEN EndedAs(fromhex(s), "plain_hex")
      ELSE IF b64decode(s).ok THEN EndedAs(b64decode(s), "base64")
      ELSE IF Len(s) % 4 # 0 THEN EndedAs(b64decode(PaddedTo4(s)), "base64_padded")
      ELSE result.raised

\* 'abc' is made of hex characters and has an odd length: the call raised,
\* although 'abc=' is valid base64
C18_Witness ==
  /\ DecodeDone
  /\ call.text = <<97, 98, 99>>
  /\ b64decode(PaddedTo4(call.text)).ok
  /\ result.raised
====
